---- MODULE Spec2Model ----
(***************************************************************************)
(* A model of the Chord-style ring of peers: the identifier arithmetic     *)
(* (hsh, between), the routing engine (findSuccessor and the SUCC          *)
(* handler), the membership engine (joinRing, leaveRing, the JOIN and      *)
(* UPDATE handlers, the key handoff) and the STORE / RETRIEVE handlers,    *)
(* together with the client program's storeFile / retrieveFile.            *)
(*                                                                         *)
(* A peer is a process with one operator task (the menu) and one task per  *)
(* accepted connection.  A request that is answered (SUCC, JOIN, the first *)
(* OK of STORE, RETRIEVE) blocks its sender, so the handler runs inside    *)
(* the action of the sender.  What is written and never waited for (an     *)
(* UPDATE line, the bulk bytes of a peer-to-peer STORE) is put in `net'    *)
(* and handled by the receiver in an action of its own.                    *)
(***************************************************************************)
EXTENDS Integers, Sequences, FiniteSets, TLC

VARIABLES
    alive,        \* alive[p]: the process of peer p is running
    menu,         \* menu[p]: where p's operator task is (main's switch)
    successor,    \* successor[p]: the CW neighbor slot of p
    predecessor,  \* predecessor[p]: the CCW neighbor slot of p
    storedFiles,  \* storedFiles[p]: the map file name -> key of p
    disk,         \* disk[p]: the blobs in p's directory, file name -> bytes
    net,          \* lines and bulk bytes written and not yet handled
    ringOf,       \* history: ringOf[p] is the set of peers p shares a ring with
    due,          \* history: due[p] are the names stored into p's ring
    onlyJoins,    \* history: no leaveRing has changed a ring so far
    serial,       \* history: every operation was begun with the others settled
    ctx,          \* history: the last client STORE or the last leaveRing
    lastRetr,     \* history: the outcome of the client's last RETRIEVE
    used,         \* how many stores, leaves and exits have been run
    wire,         \* history: one request or menu option, with the peer before and after
    bArgs,        \* the arguments <<low, n, high>> of a call of between
    bRet,         \* what that call returned ("none" before it returns)
    tasks,        \* tasks[t]: where connection task t of one peer is in its handler
    hasher        \* the hash state all tasks of that peer share

ringVars == <<alive, menu, successor, predecessor, storedFiles, disk, net>>
histVars == <<ringOf, due, onlyJoins, serial, ctx, lastRetr, used, wire>>
pureVars == <<bArgs, bRet, tasks, hasher>>
vars == <<ringVars, histVars, pureVars>>

----------------------------------------------------------------------------
(* Program constants and the universe of names.                            *)

ringCapacity == 127

\* How many peer addresses there are.
NumPeers == 4

\* How many client stores, leaveRing calls and exits a run holds.
MaxStores == 2
MaxLeaves == 2
MaxExits == 1

\* The printable form of each peer's bound socket (peer <port> on localhost).
PeerTable ==
    << "127.0.0.1:8004", "127.0.0.1:8001", "127.0.0.1:8002",
       "127.0.0.1:8003", "127.0.0.1:8000" >>

Peers == { PeerTable[i] : i \in 1..NumPeers }

\* A second address of ID 23, the ID of 127.0.0.1:8001.
Colliders == { "127.0.0.1:8062" }

\* Every address a process may be bound to.
Hosts == Peers \cup Colliders

\* The peers that are started where files are stored: of ID 0, 23 and 53.
FilePeers == { "127.0.0.1:8004", "127.0.0.1:8001", "127.0.0.1:8002" }

\* The file the client stores; its key, hsh("a.txt") = 0, is the ID of
\* 127.0.0.1:8004 and lies in the arc of another peer when that one is away.
FileNames == { "a.txt" }

\* The content of the k-th file a client stores in a run: k bytes of value
\* 64 + k, so that any two stored contents differ in size and in every byte.
Payload(k) == [ i \in 1..k |-> 64 + k ]

\* The bytes of every string that is hashed.
NameBytes ==
    ("127.0.0.1:8004" :> <<49, 50, 55, 46, 48, 46, 48, 46, 49, 58, 56, 48, 48, 52>>) @@
    ("127.0.0.1:8001" :> <<49, 50, 55, 46, 48, 46, 48, 46, 49, 58, 56, 48, 48, 49>>) @@
    ("127.0.0.1:8002" :> <<49, 50, 55, 46, 48, 46, 48, 46, 49, 58, 56, 48, 48, 50>>) @@
    ("127.0.0.1:8003" :> <<49, 50, 55, 46, 48, 46, 48, 46, 49, 58, 56, 48, 48, 51>>) @@
    ("127.0.0.1:8000" :> <<49, 50, 55, 46, 48, 46, 48, 46, 49, 58, 56, 48, 48, 48>>) @@
    ("127.0.0.1:8062" :> <<49, 50, 55, 46, 48, 46, 48, 46, 49, 58, 56, 48, 54, 50>>) @@
    ("a.txt" :> <<97, 46, 116, 120, 116>>) @@
    ("hi" :> <<104, 105>>) @@
    ("c" :> <<99>>) @@
    ("z" :> <<122>>) @@
    ("" :> << >>)

----------------------------------------------------------------------------
(* hash/fnv New32a: the 32-bit state is kept as two 16-bit halves          *)
(* <<high, low>>, every product staying below 2^31.                        *)

RECURSIVE xorBits(_, _, _)
xorBits(a, b, bits) ==
    IF bits = 0 THEN 0
    ELSE ((a + b) % 2) + 2 * xorBits(a \div 2, b \div 2, bits - 1)

\* offset basis 2166136261 = 0x811C9DC5
fnvNew32a == <<33052, 40389>>

\* One byte of Write: hash ^= b; hash *= 16777619 (= 2^24 + 403), mod 2^32.
fnvWriteByte(h, b) ==
    LET low  == (h[2] - (h[2] % 256)) + xorBits(h[2] % 256, b, 8)
        prod == low * 403
    IN  << (h[1] * 403 + (prod \div 65536) + (low % 256) * 256) % 65536,
           prod % 65536 >>

RECURSIVE fnvWrite(_, _)
fnvWrite(h, bytes) ==
    IF bytes = << >> THEN h
    ELSE fnvWrite(fnvWriteByte(h, Head(bytes)), Tail(bytes))

\* digest % ringCapacity, the digest being high * 2^16 + low.
digestMod(h) ==
    ((h[1] % ringCapacity) * (65536 % ringCapacity) + h[2]) % ringCapacity

\* hsh of every name of the universe, computed once.
hshTable == [ s \in DOMAIN NameBytes |-> digestMod(fnvWrite(fnvNew32a, NameBytes[s])) ]

hsh(in) == hshTable[in]

----------------------------------------------------------------------------
(* between: whether low < n < high on the ring.                            *)

\* between on the line: an interval through 0 is never wrapped.
betweenNoWrap(low, n, high) ==
    IF low = high THEN TRUE
    ELSE n > low /\ n < high

\* between with the lower end let in.
betweenInclusiveLow(low, n, high) ==
    IF low = high THEN TRUE
    ELSE LET perimeter == ringCapacity
             high2 == IF high < low THEN high + perimeter ELSE high
             n2 == IF high < low /\ n < low THEN n + perimeter ELSE n
         IN  n2 >= low /\ n2 < high2

\* between that lifts high over the perimeter and leaves n where it is.
betweenWrapHighOnly(low, n, high) ==
    IF low = high THEN TRUE
    ELSE LET perimeter == ringCapacity
             high2 == IF high < low THEN high + perimeter ELSE high
         IN  n > low /\ n < high2

\* between with the upper end let in.
betweenInclusiveHigh(low, n, high) ==
    IF low = high THEN TRUE
    ELSE LET perimeter == ringCapacity
             high2 == IF high < low THEN high + perimeter ELSE high
             n2 == IF high < low /\ n < low THEN n + perimeter ELSE n
         IN  n2 > low /\ n2 <= high2

between(low, n, high) ==
    IF low = high THEN TRUE
    ELSE LET perimeter == ringCapacity
             high2 == IF high < low THEN high + perimeter ELSE high
             n2 == IF high < low /\ n < low THEN n + perimeter ELSE n
         IN  n2 > low /\ n2 < high2

----------------------------------------------------------------------------
(* Nodes and maps.                                                         *)

newNode == [ Address |-> "", ID |-> -1 ]

self(p) == [ Address |-> p, ID |-> hsh(p) ]

EmptyMap == [ x \in {} |-> 0 ]

MapPut(m, k, v) == [ x \in (DOMAIN m) \cup {k} |-> IF x = k THEN v ELSE m[x] ]

MapDel(m, k) == [ x \in (DOMAIN m) \ {k} |-> m[x] ]

\* net.Dial succeeds: the address is a peer's and its process is running.
IsUp(w, address) == address \in Hosts /\ w.alive[address]

\* The state the peers' code reads and writes, passed through a handler.
World ==
    [ alive |-> alive, successor |-> successor, predecessor |-> predecessor,
      storedFiles |-> storedFiles, disk |-> disk, net |-> net ]

\* log.Fatalln, or a panic: the process of p ends and its memory is gone.
die(w, p) ==
    [ w EXCEPT !.alive[p] = FALSE,
               !.successor[p] = newNode,
               !.predecessor[p] = newNode,
               !.storedFiles[p] = EmptyMap,
               !.disk[p] = EmptyMap ]

RECURSIVE dieAll(_, _)
dieAll(w, ps) ==
    IF ps = {} THEN w
    ELSE LET p == CHOOSE x \in ps : TRUE IN dieAll(die(w, p), ps \ {p})

----------------------------------------------------------------------------
(* Routing engine.  A lookup result is                                     *)
(*   st     "ok": answer holds the returned string; "fatal": every peer of *)
(*          died ended in log.Fatalln; "loop": the SUCC request is         *)
(*          forwarded for ever (a peer is asked twice, nothing changed)    *)
(*   answer the address in the returned string                             *)
(*   nl     the returned string ends in the reply's line break             *)
(*   path   the peers whose findSuccessor ran, in order                    *)

\* A SUCC request that went through every peer has come back to its start.
MaxHops == Cardinality(Peers)

Found(st, answer, nl, path, died) ==
    [ st |-> st, answer |-> answer, nl |-> nl, path |-> path, died |-> died ]

RECURSIVE findSuccessorFrom(_, _, _, _)

\* sendSuccessorRequest, with the SUCC handler of the peer it asks.
sendSuccessorRequest(w, p, id, peerAddr, fuel) ==
    LET relay(r) ==
            IF r.st = "ok" THEN Found("ok", r.answer, TRUE, <<p>> \o r.path, {})
            ELSE IF r.st = "fatal"
            THEN Found("fatal", "", FALSE, <<p>> \o r.path, r.died \cup {p})
            ELSE Found("loop", "", FALSE, <<p>> \o r.path, {})
    IN  IF ~IsUp(w, peerAddr) THEN Found("fatal", "", FALSE, <<p>>, {p})
        ELSE IF fuel = 0 THEN Found("loop", "", FALSE, <<p>>, {})
        ELSE relay(findSuccessorFrom(w, peerAddr, id, fuel - 1))

\* findSuccessor with the neighbor never asked: step 4 answers like step 3.
findSuccessorNoForward(w, p, id, fuel) ==
    LET me == self(p)
        su == w.successor[p]
        pr == w.predecessor[p]
    IN  IF pr.ID = -1 /\ su.ID = -1 THEN Found("ok", me.Address, FALSE, <<p>>, {})
        ELSE IF between(pr.ID, id, me.ID) \/ id = me.ID
        THEN Found("ok", me.Address, FALSE, <<p>>, {})
        ELSE Found("ok", su.Address, FALSE, <<p>>, {})

findSuccessorFrom(w, p, id, fuel) ==
    LET me == self(p)
        su == w.successor[p]
        pr == w.predecessor[p]
    IN  IF pr.ID = -1 /\ su.ID = -1 THEN Found("ok", me.Address, FALSE, <<p>>, {})
        ELSE IF between(pr.ID, id, me.ID) \/ id = me.ID
        THEN Found("ok", me.Address, FALSE, <<p>>, {})
        ELSE IF between(me.ID, id, su.ID) \/ id = su.ID
        THEN Found("ok", su.Address, FALSE, <<p>>, {})
        ELSE sendSuccessorRequest(w, p, id, su.Address, fuel)

\* findSuccessor that answers with the peer's own address for every id.
findSuccessorSelf(w, p, id) == Found("ok", self(p).Address, FALSE, <<p>>, {})

findSuccessor(w, p, id) == findSuccessorFrom(w, p, id, MaxHops)

\* handleSuccessorRequest: the reply line is the answer.
handleSuccessorRequest(w, p, id) == findSuccessor(w, p, id)

----------------------------------------------------------------------------
(* STORE, sender and receiver.                                             *)

StoreMsg(to, name, data) ==
    [ type |-> "STORE", to |-> to, fileName |-> name, data |-> data,
      newSuccAddr |-> "", newPredAddr |-> "" ]

UpdateMsg(to, newSuccAddr, newPredAddr) ==
    [ type |-> "UPDATE", to |-> to, fileName |-> "", data |-> << >>,
      newSuccAddr |-> newSuccAddr, newPredAddr |-> newPredAddr ]

\* handleStoreRequest up to its first OK: os.Create makes the blob, empty.
storeCreate(w, q, fileName) ==
    [ w EXCEPT !.disk[q] = MapPut(w.disk[q], fileName, << >>) ]

\* handleStoreRequest that fills the blob and leaves the map as it is.
storeFinishNoEntry(w, q, fileName, data) ==
    [ w EXCEPT !.disk[q] = MapPut(w.disk[q], fileName, data) ]

\* handleStoreRequest that refuses to overwrite a name it already holds.
storeFinishKeepFirst(w, q, fileName, data) ==
    IF fileName \in DOMAIN w.storedFiles[q] THEN w
    ELSE [ w EXCEPT !.disk[q] = MapPut(w.disk[q], fileName, data),
                    !.storedFiles[q] = MapPut(w.storedFiles[q], fileName, hsh(fileName)) ]

\* handleStoreRequest after its first OK: io.CopyN of size bytes into the
\* blob os.Create opened, then the entry.
storeFinish(w, q, fileName, data) ==
    [ w EXCEPT !.disk[q] = MapPut(w.disk[q], fileName, data),
               !.storedFiles[q] = MapPut(w.storedFiles[q], fileName, hsh(fileName)) ]

\* handleStoreRequest whose io.CopyN ended before size bytes: the blob holds
\* what arrived, the map is not touched.
storeAbort(w, q, fileName, part) ==
    [ w EXCEPT !.disk[q] = MapPut(w.disk[q], fileName, part) ]

\* storeFile of a peer: it reads the first OK, copies the bytes and returns.
storeFile(w, p, fileName, peerAddr) ==
    IF ~IsUp(w, peerAddr) THEN die(w, p)
    ELSE IF fileName \notin DOMAIN w.disk[p] THEN die(w, p)
    ELSE [ w EXCEPT !.disk[peerAddr] = MapPut(w.disk[peerAddr], fileName, << >>),
                    !.net = w.net \cup { StoreMsg(peerAddr, fileName, w.disk[p][fileName]) } ]

\* sendUpdateRequest: the line is written, the connection closed.
sendUpdateRequest(w, p, newSuccAddr, newPredAddr, peerAddr) ==
    IF ~IsUp(w, peerAddr) THEN die(w, p)
    ELSE [ w EXCEPT !.net = w.net \cup { UpdateMsg(peerAddr, newSuccAddr, newPredAddr) } ]

----------------------------------------------------------------------------
(* UPDATE handler.                                                         *)

Node(address) == [ Address |-> address, ID |-> hsh(address) ]

\* handleUpdateRequest without the return to alone on the peer's own address.
handleUpdateNeverAlone(w, p, newSuccAddr, newPredAddr) ==
    LET setPred(w1) ==
            IF newPredAddr = "KEEP" THEN w1
            ELSE [ w1 EXCEPT !.predecessor[p] = Node(newPredAddr) ]
    IN  setPred(IF newSuccAddr = "KEEP" THEN w
                ELSE [ w EXCEPT !.successor[p] = Node(newSuccAddr) ])

\* handleUpdateRequest that empties a slot on KEEP.
handleUpdateKeepClears(w, p, newSuccAddr, newPredAddr) ==
    LET setPred(w1) ==
            IF newPredAddr = "KEEP" THEN [ w1 EXCEPT !.predecessor[p] = newNode ]
            ELSE IF newPredAddr = self(p).Address
            THEN [ w1 EXCEPT !.successor[p] = newNode, !.predecessor[p] = newNode ]
            ELSE [ w1 EXCEPT !.predecessor[p] = Node(newPredAddr) ]
    IN  setPred(IF newSuccAddr = "KEEP" THEN [ w EXCEPT !.successor[p] = newNode ]
                ELSE IF newSuccAddr = self(p).Address
                THEN [ w EXCEPT !.successor[p] = newNode, !.predecessor[p] = newNode ]
                ELSE [ w EXCEPT !.successor[p] = Node(newSuccAddr) ])

handleUpdateRequest(w, p, newSuccAddr, newPredAddr) ==
    LET setPred(w1) ==
            IF newPredAddr = "KEEP" THEN w1
            ELSE IF newPredAddr = self(p).Address
            THEN [ w1 EXCEPT !.successor[p] = newNode, !.predecessor[p] = newNode ]
            ELSE [ w1 EXCEPT !.predecessor[p] = Node(newPredAddr) ]
    IN  setPred(IF newSuccAddr = "KEEP" THEN w
                ELSE IF newSuccAddr = self(p).Address
                THEN [ w EXCEPT !.successor[p] = newNode, !.predecessor[p] = newNode ]
                ELSE [ w EXCEPT !.successor[p] = Node(newSuccAddr) ])

----------------------------------------------------------------------------
(* Membership engine.  `order' is the order in which a range over the map  *)
(* storedFiles yields its names (Go leaves it open).                       *)

Orders ==
    { o \in [ 1..Cardinality(FileNames) -> FileNames ] :
        \A i, j \in DOMAIN o : i # j => o[i] # o[j] }

\* The loop over toTransfer: storeFile, os.Remove, delete.
RECURSIVE moveLoop(_, _, _, _)
moveLoop(w, p, toTransfer, newNodeAddr) ==
    LET remove(w1) ==
            IF ~w1.alive[p] THEN w1
            ELSE moveLoop([ w1 EXCEPT
                              !.disk[p] = MapDel(w1.disk[p], Head(toTransfer)),
                              !.storedFiles[p] = MapDel(w1.storedFiles[p], Head(toTransfer)) ],
                          p, Tail(toTransfer), newNodeAddr)
    IN  IF toTransfer = << >> THEN w
        ELSE remove(storeFile(w, p, Head(toTransfer), newNodeAddr))

moveFilesToNewNode(w, p, newNodeAddr, newNodeID, order) ==
    LET keep(fileName) ==
            between(newNodeID, w.storedFiles[p][fileName], self(p).ID)
        toTransfer ==
            SelectSeq(order, LAMBDA f : f \in DOMAIN w.storedFiles[p] /\ ~keep(f))
    IN  moveLoop(w, p, toTransfer, newNodeAddr)

(* The outcome of a JOIN handler:                                          *)
(*   st    "ok": the line reply was written; "closed": the connection was  *)
(*         closed without a line, or the process ended before writing one; *)
(*         "loop": the JOIN is forwarded for ever                          *)
(*   w     the state once the handler (and those it called) returned       *)
(*   by    the peer that admitted the newcomer ("" if none did)            *)
(*   fwd   how many times the JOIN was forwarded                           *)

JoinOut(w, st, reply, by, fwd) ==
    [ w |-> w, st |-> st, reply |-> reply, by |-> by, fwd |-> fwd ]

\* The successor branch of handleJoinRequest that tells the predecessor nothing.
joinAsSuccessorSilent(w, p, newNodeAddr, newNodeID, order) ==
    LET setPred(w2) ==
            IF w2.alive[p]
            THEN [ w2 EXCEPT !.predecessor[p] = [ Address |-> newNodeAddr, ID |-> newNodeID ] ]
            ELSE w2
    IN  JoinOut(setPred(moveFilesToNewNode(w, p, newNodeAddr, newNodeID, order)),
                "ok", << self(p).Address, w.predecessor[p].Address >>, p, 0)

\* The successor branch of handleJoinRequest that names the new node to the
\* predecessor for both of its slots.
joinAsSuccessorSetsBoth(w, p, newNodeAddr, newNodeID, order) ==
    LET move(w1) ==
            IF w1.alive[p] THEN moveFilesToNewNode(w1, p, newNodeAddr, newNodeID, order)
            ELSE w1
        setPred(w2) ==
            IF w2.alive[p]
            THEN [ w2 EXCEPT !.predecessor[p] = [ Address |-> newNodeAddr, ID |-> newNodeID ] ]
            ELSE w2
    IN  JoinOut(setPred(move(sendUpdateRequest(w, p, newNodeAddr, newNodeAddr,
                                               w.predecessor[p].Address))),
                "ok", << self(p).Address, w.predecessor[p].Address >>, p, 0)

\* The successor branch of handleJoinRequest.
joinAsSuccessor(w, p, newNodeAddr, newNodeID, order) ==
    LET move(w1) ==
            IF w1.alive[p] THEN moveFilesToNewNode(w1, p, newNodeAddr, newNodeID, order)
            ELSE w1
        setPred(w2) ==
            IF w2.alive[p]
            THEN [ w2 EXCEPT !.predecessor[p] = [ Address |-> newNodeAddr, ID |-> newNodeID ] ]
            ELSE w2
    IN  JoinOut(setPred(move(sendUpdateRequest(w, p, newNodeAddr, "KEEP",
                                               w.predecessor[p].Address))),
                "ok", << self(p).Address, w.predecessor[p].Address >>, p, 0)

\* The alone branch of handleJoinRequest that never writes its reply.
joinAsAloneBlocks(w, p, newNodeAddr, newNodeID, order) ==
    JoinOut(w, "loop", << >>, "", 0)

\* The alone branch of handleJoinRequest.
joinAsAlone(w, p, newNodeAddr, newNodeID, order) ==
    LET node == [ Address |-> newNodeAddr, ID |-> newNodeID ]
        setBoth(w1) ==
            IF ~w1.alive[p] THEN JoinOut(w1, "closed", << >>, "", 0)
            ELSE JoinOut([ w1 EXCEPT !.successor[p] = node, !.predecessor[p] = node ],
                         "ok", << self(p).Address, self(p).Address >>, p, 0)
    IN  setBoth(moveFilesToNewNode(w, p, newNodeAddr, newNodeID, order))

\* A JOIN of the handler's own ID that is admitted like any other.
selfInitiationAdmits(w, p, newNodeAddr, newNodeID, order) ==
    joinAsAlone(w, p, newNodeAddr, newNodeID, order)

\* A JOIN of the handler's own ID that is dropped with the connection open.
selfInitiationHangs(w, p, newNodeAddr, newNodeID, order) ==
    JoinOut(w, "loop", << >>, "", 0)

\* A JOIN of the handler's own ID: the connection is closed, nothing else.
selfInitiation(w, p, newNodeAddr, newNodeID, order) ==
    JoinOut(w, "closed", << >>, "", 0)

RECURSIVE handleJoinRequest(_, _, _, _, _)

\* handleJoinRequest from the test of newNodeID on.
handleJoinFrom(w, p, newNodeAddr, newNodeID, order, fuel) ==
    LET \* the answer of sendJoinRequest is routed back to the new node
        route(in) ==
            IF in.st = "ok" THEN JoinOut(in.w, "ok", in.reply, in.by, in.fwd + 1)
            ELSE IF in.st = "loop" THEN in
            ELSE JoinOut(die(in.w, p), "closed", << >>, "", 0)
        admit(r) ==
            IF r.st = "fatal" THEN JoinOut(dieAll(w, r.died), "closed", << >>, "", 0)
            ELSE IF r.st = "loop" THEN JoinOut(w, "loop", << >>, "", 0)
            ELSE IF r.answer = self(p).Address /\ ~r.nl
            THEN joinAsSuccessor(w, p, newNodeAddr, newNodeID, order)
            \* sendJoinRequest to the successor found (connectToPeer trims it)
            ELSE IF ~IsUp(w, r.answer) THEN JoinOut(die(w, p), "closed", << >>, "", 0)
            ELSE IF fuel = 0 THEN JoinOut(w, "loop", << >>, "", 0)
            ELSE route(handleJoinRequest(w, r.answer, newNodeAddr, order, fuel - 1))
    IN  IF self(p).ID = newNodeID
        THEN selfInitiation(w, p, newNodeAddr, newNodeID, order)
        ELSE IF w.successor[p].ID = -1 /\ w.predecessor[p].ID = -1
        THEN joinAsAlone(w, p, newNodeAddr, newNodeID, order)
        ELSE admit(findSuccessor(w, p, newNodeID))

handleJoinRequest(w, p, newNodeAddr, order, fuel) ==
    handleJoinFrom(w, p, newNodeAddr, hsh(newNodeAddr), order, fuel)

\* joinRing: sendJoinRequest to the initiator, then the two slots.
joinRing(w, p, initiatorAddress, order) ==
    LET slots(out) ==
            IF out.st = "loop" THEN out
            ELSE IF out.st = "closed" \/ out.reply[2] = ""
            THEN JoinOut(die(out.w, p), "closed", << >>, "", out.fwd)
            ELSE JoinOut([ out.w EXCEPT !.successor[p] = Node(out.reply[1]),
                                        !.predecessor[p] = Node(out.reply[2]) ],
                         "ok", out.reply, out.by, out.fwd)
    IN  IF ~IsUp(w, initiatorAddress) THEN JoinOut(die(w, p), "closed", << >>, "", 0)
        ELSE slots(handleJoinRequest(w, initiatorAddress, self(p).Address, order, MaxHops))

\* The loop of leaveRing over storedFiles.
RECURSIVE leaveLoop(_, _, _, _)
leaveLoop(w, p, names, peerAddr) ==
    LET next(w1) == IF ~w1.alive[p] THEN w1 ELSE leaveLoop(w1, p, Tail(names), peerAddr)
    IN  IF names = << >> THEN w
        ELSE next(storeFile(w, p, Head(names), peerAddr))

\* leaveRing without its early return.
leaveRingNoGuard(w, p, order) ==
    LET succAddr == w.successor[p].Address
        predAddr == w.predecessor[p].Address
        reset(w3) ==
            IF ~w3.alive[p] THEN w3
            ELSE [ w3 EXCEPT !.disk[p] = EmptyMap,
                             !.successor[p] = newNode,
                             !.predecessor[p] = newNode ]
        files(w2) ==
            IF ~w2.alive[p] THEN w2
            ELSE leaveLoop(w2, p,
                     SelectSeq(order, LAMBDA f : f \in DOMAIN w2.storedFiles[p]), succAddr)
        toPred(w1) ==
            IF ~w1.alive[p] THEN w1
            ELSE sendUpdateRequest(w1, p, succAddr, "KEEP", predAddr)
    IN  reset(files(toPred(sendUpdateRequest(w, p, "KEEP", predAddr, succAddr))))

\* leaveRing: the two UPDATEs, the files to the successor, os.RemoveAll, the
\* two slots; the map storedFiles is left as it is.
leaveRing(w, p, order) ==
    LET succAddr == w.successor[p].Address
        predAddr == w.predecessor[p].Address
        reset(w3) ==
            IF ~w3.alive[p] THEN w3
            ELSE [ w3 EXCEPT !.disk[p] = EmptyMap,
                             !.successor[p] = newNode,
                             !.predecessor[p] = newNode ]
        files(w2) ==
            IF ~w2.alive[p] THEN w2
            ELSE leaveLoop(w2, p,
                     SelectSeq(order, LAMBDA f : f \in DOMAIN w2.storedFiles[p]), succAddr)
        toPred(w1) ==
            IF ~w1.alive[p] THEN w1
            ELSE sendUpdateRequest(w1, p, succAddr, "KEEP", predAddr)
    IN  IF w.successor[p].ID = -1 \/ w.predecessor[p].ID = -1 THEN w
        ELSE reset(files(toPred(sendUpdateRequest(w, p, "KEEP", predAddr, succAddr))))

----------------------------------------------------------------------------
(* RETRIEVE handler and the client program.                                *)

Reply(st, server, size, data) ==
    [ st |-> st, server |-> server, size |-> size, data |-> data ]

\* handleRetrieveRequest that answers a missing blob with "OK 0".
handleRetrieveEmptyOK(w, p, fileName) ==
    IF fileName \notin DOMAIN w.storedFiles[p]
    THEN Reply("ERR File does not exist.", p, 0, << >>)
    ELSE IF fileName \notin DOMAIN w.disk[p]
    THEN Reply("OK", p, 0, << >>)
    ELSE Reply("OK", p, Len(w.disk[p][fileName]), w.disk[p][fileName])

\* handleRetrieveRequest: "OK <size>", the bytes, "OK"; or the ERR line.
handleRetrieveRequest(w, p, fileName) ==
    IF fileName \notin DOMAIN w.storedFiles[p]
    THEN Reply("ERR File does not exist.", p, 0, << >>)
    ELSE IF fileName \notin DOMAIN w.disk[p]
    THEN Reply("ERR File does not exist.", p, 0, << >>)
    ELSE Reply("OK", p, Len(w.disk[p][fileName]), w.disk[p][fileName])

(* handleRequest, the multiplexer of a connection task.  A request is the  *)
(* tokens of its line and the bytes that follow the line.  The outcome:    *)
(*   w      the state once the handler returned (or the process ended)     *)
(*   reply  the lines written to the connection, each as its tokens        *)
(*   size   the number in "OK <size>" of RETRIEVE                          *)
(*   data   the bytes written after that line                              *)

\* strconv.Atoi of the strings that are sent as numbers.
AtoiTable == ("0" :> 0) @@ ("1" :> 1) @@ ("2" :> 2)

Atoi(str) ==
    IF str \in DOMAIN AtoiTable THEN [ err |-> FALSE, val |-> AtoiTable[str] ]
    ELSE [ err |-> TRUE, val |-> 0 ]

Served(w, reply, size, data) ==
    [ w |-> w, reply |-> reply, size |-> size, data |-> data ]

\* tokens[i] out of range, or log.Fatalln: the process ends, nothing is written.
panic(w, p) == Served(die(w, p), << >>, 0, << >>)

\* handleStoreRequest with the bytes that arrive after the first OK.
handleStoreRequest(w, q, fileName, fileSize, body) ==
    IF Len(body) < fileSize
    THEN Served(storeAbort(storeCreate(w, q, fileName), q, fileName, body),
                << <<"OK">>, <<"ERR Could not copy file.">> >>, 0, << >>)
    ELSE Served(storeFinish(storeCreate(w, q, fileName), q, fileName,
                            SubSeq(body, 1, fileSize)),
                << <<"OK">>, <<"OK">> >>, 0, << >>)

handleRequest(w, p, tokens, body, order) ==
    LET request == tokens[1]
        succ(r) ==
            IF r.st = "ok" THEN Served(w, << <<r.answer>> >>, 0, << >>)
            ELSE IF r.st = "fatal" THEN Served(dieAll(w, r.died), << >>, 0, << >>)
            ELSE Served(w, << >>, 0, << >>)
        join(out) ==
            IF out.st = "ok" THEN Served(out.w, << out.reply >>, 0, << >>)
            ELSE Served(out.w, << >>, 0, << >>)
        retrieve(got) ==
            IF got.st = "OK"
            THEN Served(w, << <<"OK">>, <<"OK">> >>, got.size, got.data)
            ELSE Served(w, << <<got.st>> >>, 0, << >>)
    IN  IF request = "JOIN"
        THEN IF Len(tokens) < 2 THEN panic(w, p)
             ELSE join(handleJoinRequest(w, p, tokens[2], order, MaxHops))
        ELSE IF request = "SUCC"
        THEN IF Len(tokens) < 2 \/ Atoi(tokens[2]).err THEN panic(w, p)
             ELSE succ(handleSuccessorRequest(w, p, Atoi(tokens[2]).val))
        ELSE IF request = "UPDATE"
        THEN IF Len(tokens) < 3 THEN panic(w, p)
             ELSE Served(handleUpdateRequest(w, p, tokens[2], tokens[3]), << >>, 0, << >>)
        ELSE IF request = "STORE"
        THEN IF Len(tokens) < 3 THEN panic(w, p)
             ELSE handleStoreRequest(w, p, tokens[2], Atoi(tokens[3]).val, body)
        ELSE IF request = "RETRIEVE"
        THEN IF Len(tokens) < 2 THEN panic(w, p)
             ELSE retrieve(handleRetrieveRequest(w, p, tokens[2]))
        ELSE Served(w, << >>, 0, << >>)

(* The outcome of a client call: st is "OK", an ERR line, "FATAL" (the     *)
(* client ended in log.Fatalln) or "HANG" (its SUCC is never answered).    *)

ClientOut(w, reply) == [ w |-> w, reply |-> reply ]

\* The client's storeFile: askForSuccesor, then STORE at the owner.
clientStoreFile(w, peerAddr, fileName, data) ==
    LET store(r) ==
            IF r.st = "fatal" THEN ClientOut(dieAll(w, r.died), Reply("FATAL", "", 0, << >>))
            ELSE IF r.st = "loop" THEN ClientOut(w, Reply("HANG", "", 0, << >>))
            ELSE IF ~IsUp(w, r.answer) THEN ClientOut(w, Reply("FATAL", "", 0, << >>))
            ELSE ClientOut(storeFinish(storeCreate(w, r.answer, fileName),
                                       r.answer, fileName, data),
                           Reply("OK", r.answer, Len(data), data))
    IN  store(handleSuccessorRequest(w, peerAddr, hsh(fileName)))

\* The client's retrieveFile: askForSuccesor, then RETRIEVE at the owner;
\* io.CopyN takes size bytes of what follows the "OK <size>" line.
clientRetrieveFile(w, peerAddr, fileName) ==
    LET copy(got) == Reply(got.st, got.server, got.size, SubSeq(got.data, 1, got.size))
        retrieve(r) ==
            IF r.st = "fatal" THEN ClientOut(dieAll(w, r.died), Reply("FATAL", "", 0, << >>))
            ELSE IF r.st = "loop" THEN ClientOut(w, Reply("HANG", "", 0, << >>))
            ELSE IF ~IsUp(w, r.answer) THEN ClientOut(w, Reply("FATAL", "", 0, << >>))
            ELSE ClientOut(w, copy(handleRetrieveRequest(w, r.answer, fileName)))
    IN  retrieve(handleSuccessorRequest(w, peerAddr, hsh(fileName)))

----------------------------------------------------------------------------
(* The state machine.                                                      *)

Quiescent == net = {}

\* No operator task other than p's is inside a menu option.
OthersIdle(p) == \A q \in Hosts \ {p} : menu[q] \in {"idle", "hung"}

\* The run goes on until the client's RETRIEVE, which is its last step: what
\* the client got is then the state to judge.
Running == lastRetr.st = "none"

\* leaveRing returns at once: there is no ring to leave.
NoRing(p) == successor[p].ID = -1 \/ predecessor[p].ID = -1

Alone(p) == successor[p].ID = -1 /\ predecessor[p].ID = -1

\* The peer reached from q by k steps along successor ("" once off the peers).
RECURSIVE walk(_, _)
walk(q, k) ==
    IF k = 0 THEN q
    ELSE IF q \notin Hosts THEN ""
    ELSE walk(successor[q].Address, k - 1)

\* The peers of S are running, form one cycle under successor that visits
\* each of them once, and predecessor is the inverse of successor.
SingleCycle(S) ==
    /\ \A q \in S : /\ alive[q]
                    /\ successor[q].Address \in S
                    /\ successor[q].ID = hsh(successor[q].Address)
                    /\ predecessor[q].Address \in S
                    /\ predecessor[q].ID = hsh(predecessor[q].Address)
                    /\ predecessor[successor[q].Address].Address = q
    /\ \A q \in S : /\ { walk(q, k) : k \in 0..(Cardinality(S) - 1) } = S
                    /\ walk(q, Cardinality(S)) = q

\* The ring invariant on the peers of S.
RingInvariant(S) ==
    IF Cardinality(S) >= 2 THEN SingleCycle(S)
    ELSE \A q \in S : alive[q] => Alone(q)

\* ctx before any operation.  Of a STORE: entry, peer (the owner that took
\* it), name, data, prev (the payload of the STORE just before, if that was
\* of the same name at the same peer), steady (the ring of the entry peer
\* satisfied the ring invariant).  Of a leaveRing: peer (the leaver), succ
\* (its successor), files (what it held), rest (the other peers of its
\* ring), steady (the ring was one cycle).
NoCtx ==
    [ kind |-> "none", entry |-> "", peer |-> "", name |-> "", data |-> << >>,
      prev |-> << >>, succ |-> "", files |-> EmptyMap, rest |-> {},
      steady |-> FALSE ]

\* lastRetr before the client's RETRIEVE; quiet: nothing was in flight.
NoRetr ==
    [ name |-> "", entry |-> "", quiet |-> FALSE, st |-> "none", server |-> "",
      size |-> 0, data |-> << >> ]

\* What peer p holds in the state w.
Snap(w, p) ==
    [ alive |-> w.alive[p], successor |-> w.successor[p],
      predecessor |-> w.predecessor[p], storedFiles |-> w.storedFiles[p],
      disk |-> w.disk[p] ]

\* wire before any request was watched.  Of a request: kind "request", peer
\* (the handler's), tokens and body, reply, size and data (what was written
\* back).  Of menu option 1 on a peer with no ring: kind "option1" once
\* leaveRing has returned and "joined" once joinRing has ended, peer,
\* initiator (the address read), st (how joinRing ended).  before and after
\* are the peer as the handler (or leaveRing) found and left it, sent is
\* what it wrote to other peers without waiting.  Of option 1 also: left
\* (the other peers of the ring the peer was in), members (the other peers
\* of the initiator's ring, each as it was when the option was picked),
\* steady (that ring satisfied the ring invariant); and once joinRing has
\* ended: by (the peer that admitted), fwd (how often the JOIN was
\* forwarded), joinReply (the two tokens joinRing read), joinSent (what the
\* handlers of the JOIN wrote to other peers without waiting).
NoWire ==
    [ kind |-> "none", peer |-> "", tokens |-> << >>, body |-> << >>,
      reply |-> << >>, size |-> 0, data |-> << >>, initiator |-> "", st |-> "",
      before |-> [ alive |-> FALSE ], after |-> [ alive |-> FALSE ], sent |-> {},
      left |-> {}, members |-> << >>, steady |-> FALSE,
      by |-> "", fwd |-> 0, joinReply |-> << >>, joinSent |-> {} ]

Commit(w) ==
    /\ alive' = w.alive
    /\ successor' = w.successor
    /\ predecessor' = w.predecessor
    /\ storedFiles' = w.storedFiles
    /\ disk' = w.disk
    /\ net' = w.net

\* The history of the rings, with the peers whose process ended taken out.
CommitRings(w, rings, dues) ==
    /\ ringOf' = [ q \in Hosts |-> IF w.alive[q]
                                   THEN { r \in rings[q] : w.alive[r] } ELSE {q} ]
    /\ due' = [ q \in Hosts |-> IF w.alive[q] THEN dues[q] ELSE {} ]

\* The peer whose connection tasks are followed statement by statement, and
\* its tasks.
TaskPeer == "127.0.0.1:8001"

Conns == {1, 2}

\* A task that has not read a request: pc is the statement it is at, tokens
\* and data its request, in the argument of its call of hsh, h what Write
\* read of the hash state, key what hsh returned (-1 during a call), ret the
\* statement after the call, toTransfer the names its range collected.
NoTask ==
    [ pc |-> "idle", tokens |-> << >>, data |-> << >>, in |-> "", h |-> fnvNew32a,
      key |-> -1, ret |-> "", toTransfer |-> << >> ]

InitTasks ==
    /\ tasks = [ t \in Conns |-> NoTask ]
    /\ hasher = fnvNew32a

\* Every launched peer has bound its socket and is alone; the other
\* addresses have no process.
InitRing(launched) ==
    /\ alive = [ p \in Hosts |-> p \in launched ]
    /\ menu = [ p \in Hosts |-> "idle" ]
    /\ successor = [ p \in Hosts |-> newNode ]
    /\ predecessor = [ p \in Hosts |-> newNode ]
    /\ storedFiles = [ p \in Hosts |-> EmptyMap ]
    /\ disk = [ p \in Hosts |-> EmptyMap ]
    /\ net = {}
    /\ ringOf = [ p \in Hosts |-> {p} ]
    /\ due = [ p \in Hosts |-> {} ]
    /\ onlyJoins = TRUE
    /\ serial = TRUE
    /\ ctx = NoCtx
    /\ lastRetr = NoRetr
    /\ used = [ stores |-> 0, leaves |-> 0, exits |-> 0 ]
    /\ wire = NoWire

Init ==
    /\ InitRing(FilePeers)
    /\ bArgs = << >>
    /\ bRet = << >>
    /\ InitTasks

\* Menu option 1 or 7 on a ring member, up to the return of leaveRing.  The
\* operator picks an option when nothing is in flight.
LeaveRing(p, option, order) ==
    /\ Running
    /\ alive[p] /\ menu[p] = "idle" /\ ~NoRing(p) /\ Quiescent
    /\ used.leaves < MaxLeaves
    /\ used' = [ used EXCEPT !.leaves = @ + 1 ]
    /\ \E w \in { leaveRing(World, p, order) } :
         /\ Commit(w)
         /\ menu' = [ menu EXCEPT ![p] = IF w.alive[p] THEN option ELSE "idle" ]
         /\ CommitRings(w, [ q \in Hosts |-> IF q = p THEN {p}
                                             ELSE ringOf[q] \ {p} ],
                           [ due EXCEPT ![p] = {} ])
         /\ ctx' = IF w.alive[p]
                   THEN [ NoCtx EXCEPT
                            !.kind = "leave", !.peer = p,
                            !.succ = successor[p].Address,
                            !.files = [ f \in (DOMAIN storedFiles[p]) \cap (DOMAIN disk[p])
                                          |-> disk[p][f] ],
                            !.rest = ringOf[p] \ {p},
                            !.steady = SingleCycle(ringOf[p]) ]
                   ELSE NoCtx
    /\ onlyJoins' = FALSE
    /\ serial' = (serial /\ OthersIdle(p))
    /\ UNCHANGED <<lastRetr, wire, pureVars>>

\* Menu option 1 from joinRing on.  After a leaveRing that left a ring,
\* joinRing is called at once, whatever is still in flight; a peer with no
\* ring to leave is given the option when nothing is in flight.
JoinRingStep(p, initiatorAddr, order) ==
    /\ Running
    /\ alive[p]
    /\ menu[p] = "join" \/ (menu[p] = "idle" /\ NoRing(p) /\ Quiescent)
    /\ \E out \in { joinRing(World, p, initiatorAddr, order) } :
         /\ Commit(out.w)
         /\ menu' = [ menu EXCEPT ![p] = IF out.st = "loop" THEN "hung" ELSE "idle" ]
         /\ IF out.st = "ok"
            THEN CommitRings(out.w,
                     [ q \in Hosts |-> IF q \in ringOf[initiatorAddr] \cup {p}
                                       THEN ringOf[initiatorAddr] \cup {p}
                                       ELSE ringOf[q] ],
                     [ q \in Hosts |-> IF q \in ringOf[initiatorAddr] \cup {p}
                                       THEN due[initiatorAddr] \cup due[p]
                                       ELSE due[q] ])
            ELSE CommitRings(out.w, ringOf, due)
    /\ ctx' = NoCtx
    /\ serial' = (serial /\ Quiescent /\ OthersIdle(p))
    /\ UNCHANGED <<lastRetr, onlyJoins, used, pureVars>>

JoinRing(p, initiatorAddr, order) ==
    /\ JoinRingStep(p, initiatorAddr, order)
    /\ UNCHANGED wire

\* Menu option 7 after leaveRing (or with no ring to leave): main returns
\* and the process ends.
Exit(p) ==
    /\ Running
    /\ alive[p]
    /\ menu[p] = "exit" \/ (menu[p] = "idle" /\ NoRing(p) /\ Quiescent)
    /\ used.exits < MaxExits
    /\ used' = [ used EXCEPT !.exits = @ + 1 ]
    /\ \E w \in { die(World, p) } :
         /\ Commit(w)
         /\ CommitRings(w, ringOf, due)
    /\ menu' = [ menu EXCEPT ![p] = "idle" ]
    /\ ctx' = IF ctx.kind = "leave" /\ ctx.peer = p /\ menu[p] = "exit" THEN ctx ELSE NoCtx
    /\ UNCHANGED <<lastRetr, onlyJoins, serial, wire, pureVars>>

\* The client stores fileName through the entry peer, when nothing is in
\* flight.
ClientStore(peerAddr, fileName) ==
    /\ Running
    /\ alive[peerAddr] /\ Quiescent
    /\ used.stores < MaxStores
    /\ used' = [ used EXCEPT !.stores = @ + 1 ]
    /\ \E out \in { clientStoreFile(World, peerAddr, fileName, Payload(used.stores + 1)) } :
         /\ Commit(out.w)
         /\ IF out.reply.st = "OK"
            THEN /\ CommitRings(out.w, ringOf,
                       [ q \in Hosts |-> IF q \in ringOf[out.reply.server]
                                         THEN due[q] \cup {fileName} ELSE due[q] ])
                 /\ ctx' = [ NoCtx EXCEPT
                               !.kind = "store", !.entry = peerAddr,
                               !.peer = out.reply.server, !.name = fileName,
                               !.data = out.reply.data,
                               !.steady = RingInvariant(ringOf[peerAddr]),
                               !.prev = IF /\ ctx.kind = "store"
                                           /\ ctx.peer = out.reply.server
                                           /\ ctx.name = fileName
                                        THEN <<ctx.data>> ELSE << >> ]
            ELSE /\ CommitRings(out.w, ringOf, due)
                 /\ ctx' = NoCtx
    /\ serial' = (serial /\ OthersIdle(peerAddr) /\ menu[peerAddr] \in {"idle", "hung"})
    /\ UNCHANGED <<lastRetr, menu, onlyJoins, wire, pureVars>>

\* The client retrieves fileName through the entry peer, at any moment.
ClientRetrieve(peerAddr, fileName) ==
    /\ Running
    /\ alive[peerAddr]
    /\ \E out \in { clientRetrieveFile(World, peerAddr, fileName) } :
         /\ Commit(out.w)
         /\ CommitRings(out.w, ringOf, due)
         /\ lastRetr' = [ name |-> fileName, entry |-> peerAddr, quiet |-> Quiescent,
                          st |-> out.reply.st, server |-> out.reply.server,
                          size |-> out.reply.size, data |-> out.reply.data ]
    /\ UNCHANGED <<menu, onlyJoins, serial, ctx, used, wire, pureVars>>

\* A peer's connection task handles an UPDATE line.
DeliverUpdate(m) ==
    /\ Running
    /\ m \in net /\ m.type = "UPDATE"
    /\ Commit(IF alive[m.to]
              THEN handleUpdateRequest([ World EXCEPT !.net = net \ {m} ],
                                       m.to, m.newSuccAddr, m.newPredAddr)
              ELSE [ World EXCEPT !.net = net \ {m} ])
    /\ UNCHANGED <<lastRetr, menu, ringOf, due, onlyJoins, serial, ctx, used, wire, pureVars>>

\* A peer's connection task gets the bytes of a STORE and registers the file.
DeliverStore(m) ==
    /\ Running
    /\ m \in net /\ m.type = "STORE"
    /\ Commit(IF alive[m.to]
              THEN storeFinish([ World EXCEPT !.net = net \ {m} ], m.to, m.fileName, m.data)
              ELSE [ World EXCEPT !.net = net \ {m} ])
    /\ UNCHANGED <<lastRetr, menu, ringOf, due, onlyJoins, serial, ctx, used, wire, pureVars>>

Next ==
    \/ \E p \in Peers, option \in {"join", "exit"}, order \in Orders :
           LeaveRing(p, option, order)
    \/ \E p \in Peers, i \in Peers, order \in Orders : JoinRing(p, i, order)
    \/ \E p \in Peers : Exit(p)
    \/ \E e \in Peers, f \in FileNames : ClientStore(e, f)
    \/ \E e \in Peers, f \in FileNames : ClientRetrieve(e, f)
    \/ \E m \in net : DeliverUpdate(m)
    \/ \E m \in net : DeliverStore(m)

Spec == Init /\ [][Next]_vars

\* The rings alone: every address has a peer, and no file is ever stored.
InitPeers ==
    /\ InitRing(Peers)
    /\ bArgs = << >>
    /\ bRet = << >>
    /\ InitTasks

NextPeers ==
    \/ \E p \in Peers, option \in {"join", "exit"}, order \in Orders :
           LeaveRing(p, option, order)
    \/ \E p \in Peers, i \in Peers, order \in Orders : JoinRing(p, i, order)
    \/ \E p \in Peers : Exit(p)
    \/ \E m \in net : DeliverUpdate(m)

SpecPeers == InitPeers /\ [][NextPeers]_vars

----------------------------------------------------------------------------
(* between as a function of its arguments.                                 *)

Ids == 0..(ringCapacity - 1)

\* n is drawn at and next to the two ends of the interval.
NearEnds(low, high) ==
    { (x + d) % ringCapacity : x \in {low, high}, d \in {0, 1, ringCapacity - 1} }

InitBetween ==
    /\ InitRing(FilePeers)
    /\ \E low \in Ids, high \in Ids : \E n \in NearEnds(low, high) : bArgs = <<low, n, high>>
    /\ bRet = << >>
    /\ InitTasks

CallBetween ==
    /\ bRet = << >>
    /\ bRet' = << between(bArgs[1], bArgs[2], bArgs[3]) >>
    /\ UNCHANGED <<bArgs, tasks, hasher, ringVars, histVars>>

NextBetween == CallBetween

SpecBetween == InitBetween /\ [][NextBetween]_vars

----------------------------------------------------------------------------
(* Requests one at a time: any line a connection may carry.                *)

\* The peers of FilePeers and the peer of the second address of ID 23.
InitWire ==
    /\ InitRing(FilePeers \cup Colliders)
    /\ bArgs = << >>
    /\ bRet = << >>
    /\ InitTasks

\* The bytes a client sends after "STORE a.txt 2".
WholeBody == << 70, 70 >>

\* Lines of every verb, whole and with tokens missing, and lines of no verb.
Lines ==
    { <<"PING">>, <<"">>, <<"SUCC">>, <<"SUCC", "x">>, <<"SUCC", "0">>,
      <<"UPDATE", "a">>, <<"JOIN">>, <<"STORE", "a.txt">>,
      <<"RETRIEVE">>, <<"RETRIEVE", "a.txt">> }
    \cup { <<"UPDATE", s, q>> : s, q \in {"KEEP", "127.0.0.1:8004", "127.0.0.1:8001"} }
    \cup { <<"JOIN", a>> : a \in {"127.0.0.1:8001", "127.0.0.1:8062"} }

\* A request: a line, and the bytes that follow it (all of the file, or its
\* first byte and then the end of the connection).
Requests ==
    { <<l, << >> >> : l \in Lines }
    \cup { << <<"STORE", "a.txt", "2">>, b >> : b \in { WholeBody, SubSeq(WholeBody, 1, 1) } }

\* A connection task of p handles one request.
Receive(p, tokens, body, order) ==
    /\ Running
    /\ alive[p] /\ wire.kind = "none"
    /\ \E out \in { handleRequest(World, p, tokens, body, order) } :
         /\ Commit(out.w)
         /\ CommitRings(out.w, ringOf, due)
         /\ wire' = [ NoWire EXCEPT
                        !.kind = "request", !.peer = p, !.tokens = tokens,
                        !.body = body, !.reply = out.reply, !.size = out.size,
                        !.data = out.data, !.before = Snap(World, p),
                        !.after = Snap(out.w, p), !.sent = out.w.net \ net ]
    /\ ctx' = NoCtx
    /\ onlyJoins' = FALSE
    /\ serial' = FALSE
    /\ UNCHANGED <<lastRetr, menu, used, pureVars>>

NextWire ==
    \/ \E p \in Peers, i \in Peers, order \in Orders :
           wire.kind = "none" /\ JoinRing(p, i, order)
    \/ \E e \in Peers, f \in FileNames : wire.kind = "none" /\ ClientStore(e, f)
    \/ \E p \in Hosts, r \in Requests, order \in Orders : Receive(p, r[1], r[2], order)
    \/ \E m \in net : DeliverUpdate(m)
    \/ \E m \in net : DeliverStore(m)

SpecWire == InitWire /\ [][NextWire]_vars

----------------------------------------------------------------------------
(* Menu option 1, step by step.                                            *)

\* Option 1 up to the return of leaveRing: the initiator address is read,
\* leaveRing is called.
Option1(p, initiatorAddr, order) ==
    /\ Running
    /\ alive[p] /\ menu[p] = "idle" /\ Quiescent
    /\ wire.kind = "none"
    /\ \E w \in { leaveRing(World, p, order) } :
         /\ Commit(w)
         /\ CommitRings(w, IF NoRing(p) THEN ringOf
                           ELSE [ q \in Hosts |-> IF q = p THEN {p} ELSE ringOf[q] \ {p} ],
                        IF NoRing(p) THEN due ELSE [ due EXCEPT ![p] = {} ])
         /\ menu' = [ menu EXCEPT ![p] = IF w.alive[p] THEN "join" ELSE "idle" ]
         /\ wire' = [ NoWire EXCEPT
                        !.kind = "option1", !.peer = p, !.initiator = initiatorAddr,
                        !.before = Snap(World, p), !.after = Snap(w, p),
                        !.sent = w.net \ net,
                        !.left = ringOf[p] \ {p},
                        !.members = [ q \in ringOf[initiatorAddr] \ {p} |-> Snap(World, q) ],
                        !.steady = RingInvariant(ringOf[initiatorAddr]) ]
    /\ ctx' = NoCtx
    /\ onlyJoins' = (onlyJoins /\ NoRing(p))
    /\ UNCHANGED <<lastRetr, serial, used, pureVars>>

\* Option 1 from joinRing on, with the address that was read.
JoinRingWire(p, order) ==
    /\ wire.kind = "option1" /\ wire.peer = p
    /\ JoinRingStep(p, wire.initiator, order)
    /\ \E out \in { joinRing(World, p, wire.initiator, order) } :
         wire' = [ wire EXCEPT
                     !.kind = "joined",
                     !.st = IF menu'[p] = "hung" THEN "loop"
                            ELSE IF alive'[p] THEN "ok" ELSE "closed",
                     !.by = out.by, !.fwd = out.fwd,
                     !.joinReply = out.reply,
                     !.joinSent = out.w.net \ net ]

NextMenu ==
    \/ \E p \in Peers, i \in Peers, order \in Orders :
           wire.kind = "none" /\ JoinRing(p, i, order)
    \/ \E e \in Peers, f \in FileNames : wire.kind = "none" /\ ClientStore(e, f)
    \/ \E p \in Hosts, i \in Hosts, order \in Orders : NoRing(p) /\ Option1(p, i, order)
    \/ \E p \in Hosts, order \in Orders : JoinRingWire(p, order)
    \/ \E m \in net : DeliverUpdate(m)
    \/ \E m \in net : DeliverStore(m)

SpecMenu == InitWire /\ [][NextMenu]_vars

\* joinRing is called as soon as leaveRing has returned.
SpecMenuLive ==
    SpecMenu /\ WF_vars(\E p \in Hosts, order \in Orders : JoinRingWire(p, order))

\* Option 1 on any peer, a ring member or not, with a peer at every address.
InitJoin ==
    /\ InitRing(Hosts)
    /\ bArgs = << >>
    /\ bRet = << >>
    /\ InitTasks

NextJoin ==
    \/ \E p \in Peers, i \in Peers, order \in Orders :
           wire.kind = "none" /\ JoinRing(p, i, order)
    \/ \E e \in Peers, f \in FileNames : wire.kind = "none" /\ ClientStore(e, f)
    \/ \E p \in Hosts, i \in Hosts, order \in Orders : Option1(p, i, order)
    \/ \E p \in Hosts, order \in Orders : JoinRingWire(p, order)
    \/ \E m \in net : DeliverUpdate(m)
    \/ \E m \in net : DeliverStore(m)

SpecJoin == InitJoin /\ [][NextJoin]_vars

\* leaveRing has returned in option 1 and main is about to call joinRing:
\* the states in which JoinRingWire is enabled.
JoinPending == wire.kind = "option1" /\ alive[wire.peer]

\* Reliable delivery and fair scheduling: every line written to a running
\* peer is handled, and joinRing is called once leaveRing has returned.  The
\* latter is weak fairness of JoinRingWire, written with the states in which
\* that action is enabled: it does not stay enabled for ever without being
\* taken.
SpecJoinLive ==
    /\ SpecJoin
    /\ []<>(~JoinPending)
    /\ WF_vars(\E m \in net : DeliverUpdate(m))
    /\ WF_vars(\E m \in net : DeliverStore(m))

----------------------------------------------------------------------------
(* The connection tasks of one peer, statement by statement.  serverRunner *)
(* starts a task for every connection; no statement of a handler takes a   *)
(* lock (storedFilesMutex is declared and never used), so between any two  *)
(* statements of one task the other may run.                               *)

\* The requests the two connections carry.
TaskRequests ==
    { <<"STORE", "a.txt", "1">>, <<"JOIN", "127.0.0.1:8002">> }
    \cup { <<"UPDATE", s, q>> : s, q \in {"KEEP", "127.0.0.1:8004"} }

\* Task t goes on to the statement pc.
Goto(t, pc) == tasks' = [ tasks EXCEPT ![t].pc = pc ]

\* Task t calls hsh(in) and goes on to ret when it has returned.
Call(t, in, ret) ==
    tasks' = [ tasks EXCEPT ![t].pc = "hshLoad", ![t].in = in, ![t].ret = ret ]

TaskAt(t, pc) == Running /\ alive[TaskPeer] /\ tasks[t].pc = pc

\* handleRequest: the line is read and the handler of its verb is entered.
Accept(t, tokens) ==
    /\ TaskAt(t, "idle")
    /\ tasks' = [ tasks EXCEPT
                    ![t].tokens = tokens,
                    ![t].data = IF tokens[1] = "STORE" THEN Payload(1) ELSE << >>,
                    ![t].in = IF tokens[1] = "JOIN" THEN tokens[2] ELSE "",
                    ![t].ret = IF tokens[1] = "JOIN" THEN "joinTest" ELSE "",
                    ![t].pc = IF tokens[1] = "STORE" THEN "create"
                              ELSE IF tokens[1] = "JOIN" THEN "hshLoad"
                              ELSE "updSucc" ]
    /\ UNCHANGED <<ringVars, histVars, bArgs, bRet, hasher>>

\* hsh, hasher.Write: the hash state is read ...
HshLoad(t) ==
    /\ TaskAt(t, "hshLoad")
    /\ tasks' = [ tasks EXCEPT ![t].h = hasher, ![t].key = -1, ![t].pc = "hshStore" ]
    /\ UNCHANGED <<ringVars, histVars, bArgs, bRet, hasher>>

\* ... and written back with the bytes of the argument folded in.
HshStore(t) ==
    /\ TaskAt(t, "hshStore")
    /\ hasher' = fnvWrite(tasks[t].h, NameBytes[tasks[t].in])
    /\ Goto(t, "hshSum")
    /\ UNCHANGED <<ringVars, histVars, bArgs, bRet>>

\* hsh, hasher.Sum32 and the modulo.
HshSum(t) ==
    /\ TaskAt(t, "hshSum")
    /\ tasks' = [ tasks EXCEPT ![t].key = digestMod(hasher), ![t].pc = "hshReset" ]
    /\ UNCHANGED <<ringVars, histVars, bArgs, bRet, hasher>>

\* hsh, hasher.Reset and the return.
HshReset(t) ==
    /\ TaskAt(t, "hshReset")
    /\ hasher' = fnvNew32a
    /\ Goto(t, tasks[t].ret)
    /\ UNCHANGED <<ringVars, histVars, bArgs, bRet>>

\* handleStoreRequest: os.Create and the first OK.
StoreCreate(t) ==
    /\ TaskAt(t, "create")
    /\ Commit(storeCreate(World, TaskPeer, tasks[t].tokens[2]))
    /\ Goto(t, "copy")
    /\ UNCHANGED <<menu, histVars, bArgs, bRet, hasher>>

\* handleStoreRequest: io.CopyN, then the call hsh(fileName).
StoreCopy(t) ==
    /\ TaskAt(t, "copy")
    /\ disk' = [ disk EXCEPT ![TaskPeer] = MapPut(@, tasks[t].tokens[2], tasks[t].data) ]
    /\ Call(t, tasks[t].tokens[2], "mapWrite")
    /\ UNCHANGED <<alive, menu, successor, predecessor, storedFiles, net,
                   histVars, bArgs, bRet, hasher>>

\* handleStoreRequest: storedFiles[fileName] = fileKey, and the last OK.
StoreMapWrite(t) ==
    /\ TaskAt(t, "mapWrite")
    /\ storedFiles' = [ storedFiles EXCEPT
                          ![TaskPeer] = MapPut(@, tasks[t].tokens[2], tasks[t].key) ]
    /\ Goto(t, "done")
    /\ UNCHANGED <<alive, menu, successor, predecessor, disk, net,
                   histVars, bArgs, bRet, hasher>>

\* handleUpdateRequest, the successor token: KEEP, the peer's own address
\* (both slots are reset), or an address, which is assigned.
UpdSucc(t) ==
    /\ TaskAt(t, "updSucc")
    /\ IF tasks[t].tokens[2] = "KEEP"
       THEN Goto(t, "updPred") /\ UNCHANGED <<successor, predecessor>>
       ELSE IF tasks[t].tokens[2] = self(TaskPeer).Address
       THEN /\ successor' = [ successor EXCEPT ![TaskPeer] = newNode ]
            /\ predecessor' = [ predecessor EXCEPT ![TaskPeer] = newNode ]
            /\ Goto(t, "updPred")
       ELSE /\ successor' = [ successor EXCEPT ![TaskPeer].Address = tasks[t].tokens[2] ]
            /\ UNCHANGED predecessor
            /\ Goto(t, "updSuccCall")
    /\ UNCHANGED <<alive, menu, storedFiles, disk, net, histVars, bArgs, bRet, hasher>>

\* successor.ID = hsh(successor.Address): the call, with the slot as it is.
UpdSuccCall(t) ==
    /\ TaskAt(t, "updSuccCall")
    /\ Call(t, successor[TaskPeer].Address, "updSuccID")
    /\ UNCHANGED <<ringVars, histVars, bArgs, bRet, hasher>>

\* successor.ID = hsh(successor.Address): the assignment.
UpdSuccID(t) ==
    /\ TaskAt(t, "updSuccID")
    /\ successor' = [ successor EXCEPT ![TaskPeer].ID = tasks[t].key ]
    /\ Goto(t, "updPred")
    /\ UNCHANGED <<alive, menu, predecessor, storedFiles, disk, net,
                   histVars, bArgs, bRet, hasher>>

\* handleUpdateRequest, the predecessor token.
UpdPred(t) ==
    /\ TaskAt(t, "updPred")
    /\ IF tasks[t].tokens[3] = "KEEP"
       THEN Goto(t, "done") /\ UNCHANGED <<successor, predecessor>>
       ELSE IF tasks[t].tokens[3] = self(TaskPeer).Address
       THEN /\ successor' = [ successor EXCEPT ![TaskPeer] = newNode ]
            /\ predecessor' = [ predecessor EXCEPT ![TaskPeer] = newNode ]
            /\ Goto(t, "done")
       ELSE /\ predecessor' = [ predecessor EXCEPT ![TaskPeer].Address = tasks[t].tokens[3] ]
            /\ UNCHANGED successor
            /\ Goto(t, "updPredCall")
    /\ UNCHANGED <<alive, menu, storedFiles, disk, net, histVars, bArgs, bRet, hasher>>

UpdPredCall(t) ==
    /\ TaskAt(t, "updPredCall")
    /\ Call(t, predecessor[TaskPeer].Address, "updPredID")
    /\ UNCHANGED <<ringVars, histVars, bArgs, bRet, hasher>>

UpdPredID(t) ==
    /\ TaskAt(t, "updPredID")
    /\ predecessor' = [ predecessor EXCEPT ![TaskPeer].ID = tasks[t].key ]
    /\ Goto(t, "done")
    /\ UNCHANGED <<alive, menu, successor, storedFiles, disk, net,
                   histVars, bArgs, bRet, hasher>>

\* handleJoinRequest once hsh(newNodeAddr) has returned: the test of the ID,
\* the test for being alone, and, in a ring, the rest of the handler.
JoinTest(t, order) ==
    /\ TaskAt(t, "joinTest")
    /\ IF self(TaskPeer).ID = tasks[t].key
       THEN Goto(t, "done") /\ UNCHANGED ringVars
       ELSE IF Alone(TaskPeer)
       THEN Goto(t, "range") /\ UNCHANGED ringVars
       ELSE /\ \E out \in { handleJoinFrom(World, TaskPeer, tasks[t].tokens[2],
                                           tasks[t].key, order, MaxHops) } :
                 Commit(out.w)
            /\ Goto(t, "done")
            /\ UNCHANGED menu
    /\ UNCHANGED <<histVars, bArgs, bRet, hasher>>

\* moveFilesToNewNode: the range over storedFiles that collects toTransfer.
JoinRange(t, order) ==
    /\ TaskAt(t, "range")
    /\ tasks' = [ tasks EXCEPT
                    ![t].pc = "move",
                    ![t].toTransfer =
                        SelectSeq(order,
                            LAMBDA f : /\ f \in DOMAIN storedFiles[TaskPeer]
                                       /\ ~between(tasks[t].key, storedFiles[TaskPeer][f],
                                                   self(TaskPeer).ID)) ]
    /\ UNCHANGED <<ringVars, histVars, bArgs, bRet, hasher>>

\* moveFilesToNewNode: storeFile, os.Remove and delete for each name.
JoinMove(t) ==
    /\ TaskAt(t, "move")
    /\ Commit(moveLoop(World, TaskPeer, tasks[t].toTransfer, tasks[t].tokens[2]))
    /\ Goto(t, "joinSlots")
    /\ UNCHANGED <<menu, histVars, bArgs, bRet, hasher>>

\* The alone branch: the reply, then both slots.
JoinSlots(t) ==
    /\ TaskAt(t, "joinSlots")
    /\ successor' = [ successor EXCEPT
                        ![TaskPeer] = [ Address |-> tasks[t].tokens[2], ID |-> tasks[t].key ] ]
    /\ predecessor' = [ predecessor EXCEPT
                          ![TaskPeer] = [ Address |-> tasks[t].tokens[2], ID |-> tasks[t].key ] ]
    /\ Goto(t, "done")
    /\ UNCHANGED <<alive, menu, storedFiles, disk, net, histVars, bArgs, bRet, hasher>>

NextTasks ==
    \/ \E t \in Conns, tokens \in TaskRequests : Accept(t, tokens)
    \/ \E t \in Conns : HshLoad(t)
    \/ \E t \in Conns : HshStore(t)
    \/ \E t \in Conns : HshSum(t)
    \/ \E t \in Conns : HshReset(t)
    \/ \E t \in Conns : StoreCreate(t)
    \/ \E t \in Conns : StoreCopy(t)
    \/ \E t \in Conns : StoreMapWrite(t)
    \/ \E t \in Conns : UpdSucc(t)
    \/ \E t \in Conns : UpdSuccCall(t)
    \/ \E t \in Conns : UpdSuccID(t)
    \/ \E t \in Conns : UpdPred(t)
    \/ \E t \in Conns : UpdPredCall(t)
    \/ \E t \in Conns : UpdPredID(t)
    \/ \E t \in Conns, order \in Orders : JoinTest(t, order)
    \/ \E t \in Conns, order \in Orders : JoinRange(t, order)
    \/ \E t \in Conns : JoinMove(t)
    \/ \E t \in Conns : JoinSlots(t)
    \/ \E m \in net : DeliverUpdate(m)
    \/ \E m \in net : DeliverStore(m)

SpecTasks == Init /\ [][NextTasks]_vars

----------------------------------------------------------------------------
(* The ring invariant (C1, C2).                                            *)

\* C1: after joins only, each begun when nothing is in flight, once nothing
\* is in flight again the peers of every ring of at least 2 form one cycle
\* under successor that visits each peer once, and on each of them
\* predecessor is the inverse of successor.
C1_JoinsKeepOneCycle ==
    (onlyJoins /\ Quiescent) =>
        \A p \in Peers :
            (alive[p] /\ Cardinality(ringOf[p]) >= 2) => SingleCycle(ringOf[p])

\* A ring of every peer, built by joins one at a time, the last join settled.
C1_Witness ==
    /\ onlyJoins /\ Quiescent
    /\ \E p \in Peers : ringOf[p] = Peers /\ SingleCycle(Peers)

\* C2: a peer of a consistent ring of at least 2 has run leaveRing and
\* nothing is in flight any more: the leaver has both slots unset; the
\* peers that remain form one cycle if they are 2 or more, and a sole
\* remaining peer has both slots unset.
C2_LeaveKeepsRing ==
    (ctx.kind = "leave" /\ ctx.steady /\ Quiescent) =>
        /\ Alone(ctx.peer)
        /\ RingInvariant(ctx.rest)

\* A peer has left a ring of 3 or more and is alone; the others form a cycle.
C2_Witness ==
    /\ ctx.kind = "leave" /\ ctx.steady /\ Quiescent
    /\ alive[ctx.peer] /\ Alone(ctx.peer)
    /\ Cardinality(ctx.rest) >= 2 /\ SingleCycle(ctx.rest)

----------------------------------------------------------------------------
(* Lookups on a steady ring (C4, C9).                                      *)

\* How far clockwise b lies from a.
dist(a, b) == (b - a) % ringCapacity

\* The peer of S whose ID is met first going clockwise from id, id included.
FirstClockwise(S, id) ==
    CHOOSE q \in S : \A r \in S : dist(id, hsh(q)) <= dist(id, hsh(r))

\* The rings that are steady: 2 peers or more, consistent slots.
SteadyAt(p) == alive[p] /\ Cardinality(ringOf[p]) >= 2 /\ SingleCycle(ringOf[p])

\* C4: on a steady ring findSuccessor(id), from every peer and for every id,
\* returns the address of the peer whose ID comes first clockwise from id,
\* id included; an alone peer returns its own address for every id.
C4_FindSuccessorOwner ==
    \A p \in Peers :
        /\ SteadyAt(p) =>
              \A id \in Ids :
                  \E r \in { findSuccessor(World, p, id) } :
                      r.st = "ok" /\ r.answer = FirstClockwise(ringOf[p], id)
        /\ (alive[p] /\ Alone(p)) =>
              \A id \in Ids :
                  \E r \in { findSuccessor(World, p, id) } :
                      r.st = "ok" /\ r.answer = p

\* A steady ring of every peer, where a lookup of a peer's own ID started
\* elsewhere is forwarded and returns that peer.
C4_Witness ==
    \E p \in Peers, q \in Peers :
        /\ SteadyAt(p) /\ ringOf[p] = Peers
        /\ \E r \in { findSuccessor(World, p, hsh(q)) } :
               r.st = "ok" /\ r.answer = q /\ r.nl /\ Len(r.path) >= 2

\* C9: on a steady ring of n peers every findSuccessor(id) returns after at
\* most n forwarded SUCC requests, each sent to the successor of the peer
\* that forwards it and each ending strictly nearer to id, clockwise.
C9_LookupTerminates ==
    \A p \in Peers :
        SteadyAt(p) =>
            \A id \in Ids :
                \E r \in { findSuccessor(World, p, id) } :
                    /\ r.st = "ok"
                    /\ Len(r.path) - 1 <= Cardinality(ringOf[p])
                    /\ \A i \in 1..(Len(r.path) - 1) :
                           /\ r.path[i + 1] = successor[r.path[i]].Address
                           /\ dist(hsh(r.path[i + 1]), id) < dist(hsh(r.path[i]), id)

\* A steady ring of every peer with a lookup that was forwarded twice.
C9_Witness ==
    \E p \in Peers, id \in Ids :
        /\ SteadyAt(p) /\ ringOf[p] = Peers
        /\ \E r \in { findSuccessor(World, p, id) } : r.st = "ok" /\ Len(r.path) = 3

----------------------------------------------------------------------------
(* between (C10).                                                          *)

\* C10 as stated: between(low, low, high) is true for all low and high.
C10_BetweenLowLowHigh ==
    (bRet # << >> /\ bArgs[2] = bArgs[1]) => bRet[1]

\* C10, amended: between(low, low, high) is true exactly when low = high
\* (the interval is open at its lower end).
C10_BetweenLowIffEqual ==
    (bRet # << >> /\ bArgs[2] = bArgs[1]) => (bRet[1] <=> bArgs[1] = bArgs[3])

\* between(low, low, high) has returned false, with low and high different.
C10_Witness ==
    bRet # << >> /\ bArgs[2] = bArgs[1] /\ bArgs[1] # bArgs[3] /\ bRet = << FALSE >>

----------------------------------------------------------------------------
(* Where the files are (C3, C5).                                           *)

\* C3: the operations were run one at a time, nothing is in flight, the ring
\* has 2 peers or more: every file a peer P registers has its key in
\* (predecessor(P).ID, self(P).ID], and findSuccessor(key) started at any
\* peer of the ring returns P.
C3_StoredFilesAtOwner ==
    (serial /\ Quiescent) =>
        \A p \in Peers :
            (alive[p] /\ Cardinality(ringOf[p]) >= 2) =>
                \A f \in DOMAIN storedFiles[p] :
                    /\ \/ between(predecessor[p].ID, storedFiles[p][f], self(p).ID)
                       \/ storedFiles[p][f] = self(p).ID
                    /\ \A q \in ringOf[p] :
                           \E r \in { findSuccessor(World, q, storedFiles[p][f]) } :
                               r.st = "ok" /\ r.answer = p

\* C5: the operations were run one at a time and nothing is in flight: every
\* file stored with success into a ring is registered by exactly one peer of
\* that ring.
C5_ExactlyOneHolder ==
    (serial /\ Quiescent) =>
        \A p \in Peers :
            alive[p] =>
                \A f \in due[p] :
                    Cardinality({ q \in ringOf[p] : f \in DOMAIN storedFiles[q] }) = 1

----------------------------------------------------------------------------
(* Round trips of the client (C6, C7, C8).                                 *)

\* The client has retrieved the name of the last operation through a peer
\* of the ring S.
RetrievedIn(name, S) ==
    lastRetr.st # "none" /\ lastRetr.name = name /\ lastRetr.entry \in S

\* C6: a client STORE of a name through a peer of a ring that satisfies the
\* ring invariant, no join or leave since, then a client RETRIEVE of the
\* name through any peer of that ring: the reply is OK with the stored size
\* and the stored bytes.
C6_StoreThenRetrieve ==
    (/\ ctx.kind = "store" /\ ctx.steady
     /\ RetrievedIn(ctx.name, ringOf[ctx.entry])) =>
        /\ lastRetr.st = "OK"
        /\ lastRetr.size = Len(ctx.data)
        /\ lastRetr.data = ctx.data

\* A file stored through one peer of a ring of 3 was retrieved through
\* another, from a third.
C6_Witness ==
    /\ ctx.kind = "store" /\ RetrievedIn(ctx.name, ringOf[ctx.entry])
    /\ Cardinality(ringOf[ctx.entry]) = 3 /\ ctx.steady
    /\ lastRetr.entry # ctx.entry /\ lastRetr.server \notin { ctx.entry, lastRetr.entry }
    /\ lastRetr.st = "OK" /\ lastRetr.data = ctx.data /\ Len(ctx.data) > 0

\* C7: a peer P that held a file has run leaveRing, which has returned: a
\* RETRIEVE of the name through a remaining peer is served by the peer that
\* was P's successor, with the bytes P held.
C7_RetrieveAfterLeave ==
    (/\ serial /\ ctx.kind = "leave" /\ ctx.steady
     /\ lastRetr.name \in DOMAIN ctx.files
     /\ RetrievedIn(lastRetr.name, ctx.rest)) =>
        /\ lastRetr.st = "OK"
        /\ lastRetr.server = ctx.succ
        /\ lastRetr.data = ctx.files[lastRetr.name]

\* C7 with the RETRIEVE issued once nothing is in flight any more.
C7_RetrieveAfterLeaveSettled ==
    (/\ serial /\ ctx.kind = "leave" /\ ctx.steady
     /\ lastRetr.name \in DOMAIN ctx.files
     /\ RetrievedIn(lastRetr.name, ctx.rest)
     /\ lastRetr.quiet) =>
        /\ lastRetr.st = "OK"
        /\ lastRetr.server = ctx.succ
        /\ lastRetr.data = ctx.files[lastRetr.name]

\* C8: two client STOREs of one name in a row have been accepted by one
\* peer, which is still running: the peer registers the name, its blob holds
\* the second payload, and a RETRIEVE the peer then answers returns OK with
\* the second payload.
C8_SecondStoreOverwrites ==
    (ctx.kind = "store" /\ ctx.prev # << >> /\ alive[ctx.peer]) =>
        /\ ctx.name \in DOMAIN storedFiles[ctx.peer]
        /\ ctx.name \in DOMAIN disk[ctx.peer]
        /\ disk[ctx.peer][ctx.name] = ctx.data
        /\ (lastRetr.st # "none" /\ lastRetr.name = ctx.name /\ lastRetr.server = ctx.peer)
              => (lastRetr.st = "OK" /\ lastRetr.size = Len(ctx.data)
                  /\ lastRetr.data = ctx.data)

\* The second of two payloads that differ was retrieved from the peer.
C8_Witness ==
    /\ ctx.kind = "store" /\ ctx.prev # << >> /\ ctx.prev[1] # ctx.data
    /\ lastRetr.name = ctx.name /\ lastRetr.server = ctx.peer
    /\ lastRetr.st = "OK" /\ lastRetr.data = ctx.data

----------------------------------------------------------------------------
(* between on the ring (C11, C12).                                         *)

\* x turned clockwise by d.
Rot(x, d) == (x + d) % ringCapacity

\* C11: between is rotation invariant: what between(low, n, high) returned
\* is what it returns with low, n and high all turned by d, for every d.
C11_BetweenRotation ==
    bRet # << >> =>
        \A d \in Ids :
            between(Rot(bArgs[1], d), Rot(bArgs[2], d), Rot(bArgs[3], d)) = bRet[1]

\* between has returned true on an interval that ends at the last id, so
\* that turning it by 1 makes it wrap.
C11_Witness ==
    /\ bRet = << TRUE >>
    /\ bArgs[1] < bArgs[2] /\ bArgs[2] < bArgs[3] /\ bArgs[3] = ringCapacity - 1
    /\ Rot(bArgs[3], 1) < Rot(bArgs[1], 1)

\* The ids met walking clockwise from low to high, both ends left out.
Arc(low, high) == { Rot(low, k) : k \in 1..(dist(low, high) - 1) }

\* C12: between(low, n, high) is true when low = high, and otherwise exactly
\* when n is met walking clockwise from low to high, both ends left out.
C12_BetweenIsOpenArc ==
    bRet # << >> =>
        (bRet[1] <=> (bArgs[1] = bArgs[3] \/ bArgs[2] \in Arc(bArgs[1], bArgs[3])))

\* between has returned true for an n lying past 0 on an interval that wraps.
C12_Witness ==
    /\ bRet = << TRUE >>
    /\ bArgs[3] < bArgs[1] /\ bArgs[2] < bArgs[3]

----------------------------------------------------------------------------
(* RETRIEVE of what is not there (C15).                                    *)

\* C15: a RETRIEVE that reaches a peer which does not register the name, or
\* registers it and has no blob of it, is answered with the line
\* "ERR File does not exist." and no bytes, and the peer's storedFiles and
\* neighbor slots are what they were.
C15_RetrieveMissing ==
    [][ (lastRetr.st = "none" /\ lastRetr'.server # "") =>
            \A s \in { lastRetr'.server } :
                (\/ lastRetr'.name \notin DOMAIN storedFiles[s]
                 \/ lastRetr'.name \notin DOMAIN disk[s]) =>
                    /\ lastRetr'.st = "ERR File does not exist."
                    /\ lastRetr'.size = 0 /\ lastRetr'.data = << >>
                    /\ storedFiles'[s] = storedFiles[s]
                    /\ successor'[s] = successor[s]
                    /\ predecessor'[s] = predecessor[s] ]_vars

\* A RETRIEVE was answered with the ERR line by a peer that registers the
\* name and has no blob of it.
C15_Witness ==
    /\ lastRetr.st = "ERR File does not exist."
    /\ lastRetr.name \in DOMAIN storedFiles[lastRetr.server]
    /\ lastRetr.name \notin DOMAIN disk[lastRetr.server]

----------------------------------------------------------------------------
(* The map storedFiles and the blobs (C20).                                *)

\* C20: the operations were run one at a time, nothing is in flight and no
\* operator task is inside a menu option: every name a running peer
\* registers has a blob in the peer's directory, under the key hsh(name).
C20_StoredFilesHaveBlobs ==
    (serial /\ Quiescent /\ \A q \in Peers : menu[q] \in {"idle", "hung"}) =>
        \A p \in Peers :
            alive[p] =>
                \A f \in DOMAIN storedFiles[p] :
                    f \in DOMAIN disk[p] /\ storedFiles[p][f] = hsh(f)

----------------------------------------------------------------------------
(* A JOIN of the handler's own ID (C13, C14).                              *)

\* C13: a peer has handled "JOIN <newAddr>" with hsh(newAddr) its own ID: it
\* wrote no reply line, sent no UPDATE and no STORE, and its predecessor,
\* successor and storedFiles (and its blobs) are what they were.
C13_SelfJoinIgnored ==
    (/\ wire.kind = "request" /\ wire.tokens[1] = "JOIN" /\ Len(wire.tokens) = 2
     /\ hsh(wire.tokens[2]) = hsh(wire.peer)) =>
        /\ wire.reply = << >>
        /\ wire.sent = {}
        /\ wire.after = wire.before

\* A ring member that holds a file has handled the JOIN of another address
\* of its own ID.
C13_Witness ==
    /\ wire.kind = "request" /\ wire.tokens = <<"JOIN", "127.0.0.1:8062">>
    /\ wire.peer = "127.0.0.1:8001"
    /\ wire.before.successor.ID # -1
    /\ wire.before.storedFiles # EmptyMap
    /\ wire.after = wire.before

\* C14: a running newcomer B calls joinRing with the address of a running
\* peer A whose ID is B's: joinRing ends (it does not wait for ever), by the
\* error exit of B's process, and B's two slots are unset.
C14_CollidingJoinEnds ==
    (/\ wire.kind = "option1" /\ alive[wire.peer]
     /\ IsUp(World, wire.initiator)
     /\ hsh(wire.initiator) = hsh(wire.peer))
        ~> (/\ wire.kind = "joined" /\ wire.st = "closed"
            /\ ~alive[wire.peer] /\ Alone(wire.peer))

\* The joinRing of a peer through another running peer of the same ID has
\* ended in the error exit.
C14_Witness ==
    /\ wire.kind = "joined" /\ wire.st = "closed"
    /\ wire.peer # wire.initiator /\ hsh(wire.initiator) = hsh(wire.peer)
    /\ alive[wire.initiator] /\ ~alive[wire.peer]

----------------------------------------------------------------------------
(* Requests that fail (C16, C17).                                          *)

\* C16: a STORE whose bytes stopped short of size has been handled: the last
\* line written is an ERR line, and every name the peer registers has a
\* blob, which for the name of the STORE is the blob it had before.
C16_FailedStoreKeepsBlobs ==
    (/\ wire.kind = "request" /\ wire.tokens[1] = "STORE" /\ Len(wire.tokens) = 3
     /\ Len(wire.body) < Atoi(wire.tokens[3]).val) =>
        /\ wire.reply # << >>
        /\ wire.reply[Len(wire.reply)] = <<"ERR Could not copy file.">>
        /\ \A f \in DOMAIN wire.after.storedFiles :
               /\ f \in DOMAIN wire.after.disk
               /\ f = wire.tokens[2] =>
                      /\ f \in DOMAIN wire.before.disk
                      /\ wire.after.disk[f] = wire.before.disk[f]

\* The line has no verb of the protocol, or lacks a token of its verb, or
\* has an id that is no number.
Malformed(tokens) ==
    \/ tokens[1] \notin {"JOIN", "SUCC", "UPDATE", "STORE", "RETRIEVE"}
    \/ tokens[1] \in {"JOIN", "SUCC", "RETRIEVE"} /\ Len(tokens) < 2
    \/ tokens[1] \in {"UPDATE", "STORE"} /\ Len(tokens) < 3
    \/ tokens[1] = "SUCC" /\ Len(tokens) >= 2 /\ Atoi(tokens[2]).err

\* C17: a peer has handled a line with an unknown verb or with malformed or
\* missing tokens: it wrote no reply, its process is running and its
\* neighbor slots and storedFiles are what they were.
C17_MalformedStaysInTask ==
    (wire.kind = "request" /\ Malformed(wire.tokens)) =>
        /\ wire.reply = << >>
        /\ wire.after.alive
        /\ wire.after = wire.before

----------------------------------------------------------------------------
(* What UPDATE and leaveRing leave alone (C18, C19).                       *)

\* C18: a peer has handled "UPDATE s q", s and q each KEEP or an address
\* other than its own: nothing was replied or sent, storedFiles and the blobs
\* are what they were, and each slot is what it was on KEEP and otherwise
\* (addr, hsh(addr)).
C18_UpdateFrame ==
    (/\ wire.kind = "request" /\ wire.tokens[1] = "UPDATE" /\ Len(wire.tokens) = 3
     /\ wire.tokens[2] # wire.peer /\ wire.tokens[3] # wire.peer) =>
        /\ wire.reply = << >>
        /\ wire.sent = {}
        /\ wire.after.alive
        /\ wire.after.storedFiles = wire.before.storedFiles
        /\ wire.after.disk = wire.before.disk
        /\ wire.after.successor =
              IF wire.tokens[2] = "KEEP" THEN wire.before.successor
              ELSE [ Address |-> wire.tokens[2], ID |-> hsh(wire.tokens[2]) ]
        /\ wire.after.predecessor =
              IF wire.tokens[3] = "KEEP" THEN wire.before.predecessor
              ELSE [ Address |-> wire.tokens[3], ID |-> hsh(wire.tokens[3]) ]

\* A ring member that holds a file has handled an UPDATE that names a new
\* successor and keeps the predecessor.
C18_Witness ==
    /\ wire.kind = "request" /\ wire.tokens[1] = "UPDATE" /\ Len(wire.tokens) = 3
    /\ wire.tokens[2] \notin {"KEEP", wire.peer} /\ wire.tokens[3] = "KEEP"
    /\ wire.before.predecessor.ID # -1
    /\ wire.before.storedFiles # EmptyMap
    /\ wire.after.successor # wire.before.successor
    /\ wire.after.predecessor = wire.before.predecessor

\* C19: leaveRing has run on a peer with both slots unset: it sent no UPDATE
\* and no STORE, and the peer's slots, storedFiles and blobs are what they
\* were.
C19_LeaveAloneNoOp ==
    (/\ wire.kind \in {"option1", "joined"}
     /\ wire.before.successor.ID = -1 /\ wire.before.predecessor.ID = -1) =>
        /\ wire.sent = {}
        /\ wire.after = wire.before

\* leaveRing has returned on an alone peer that holds a file.
C19_Witness ==
    /\ wire.kind = "option1"
    /\ wire.before.successor.ID = -1 /\ wire.before.predecessor.ID = -1
    /\ wire.before.storedFiles # EmptyMap /\ wire.before.disk # EmptyMap
    /\ wire.after = wire.before

----------------------------------------------------------------------------
(* The handoff of a JOIN and the UPDATE that names the peer (C23, C24).    *)

\* C23: a peer R has admitted a newcomer itself (its reply names R as the
\* successor): of the files R registered, those with a key in the arc
\* (newId, R.self.id], the upper end included, are still registered on R,
\* and the others were sent to the newcomer and are registered no more.
C23_HandoffIsLowerArc ==
    (/\ wire.kind = "request" /\ wire.tokens[1] = "JOIN" /\ Len(wire.tokens) = 2
     /\ wire.reply # << >> /\ wire.reply[1][1] = wire.peer /\ wire.after.alive) =>
        \A f \in DOMAIN wire.before.storedFiles :
            IF wire.before.storedFiles[f]
                   \in Arc(hsh(wire.tokens[2]), hsh(wire.peer)) \cup { hsh(wire.peer) }
            THEN f \in DOMAIN wire.after.storedFiles
            ELSE /\ f \notin DOMAIN wire.after.storedFiles
                 /\ \E m \in wire.sent :
                        m.type = "STORE" /\ m.to = wire.tokens[2] /\ m.fileName = f

\* C24: a peer has handled an UPDATE whose successor token or predecessor
\* token is its own address: both of its neighbor slots are unset.
C24_UpdateSelfClearsBoth ==
    (/\ wire.kind = "request" /\ wire.tokens[1] = "UPDATE" /\ Len(wire.tokens) = 3
     /\ (wire.tokens[2] = wire.peer \/ wire.tokens[3] = wire.peer)) =>
        /\ wire.after.successor = newNode
        /\ wire.after.predecessor = newNode

----------------------------------------------------------------------------
(* A newcomer joins a steady ring (C25, C26).                              *)

\* joinRing has ended well for a newcomer that was alone, of an ID no member
\* has, through a member of a ring of 2 peers or more that was steady.
FreshJoin ==
    /\ wire.kind = "joined" /\ wire.st = "ok"
    /\ wire.left = {} /\ wire.before.successor.ID = -1
    /\ wire.before.predecessor.ID = -1
    /\ wire.initiator \in DOMAIN wire.members
    /\ Cardinality(DOMAIN wire.members) >= 2 /\ wire.steady
    /\ \A q \in DOMAIN wire.members : hsh(q) # hsh(wire.peer)

\* The UPDATE lines among what the handlers of the JOIN sent.
JoinUpdates == { m \in wire.joinSent : m.type = "UPDATE" }

\* C25: R has admitted the newcomer as its successor in a ring of 2 or
\* more.  The one UPDATE sent went to R's old predecessor P with the
\* newcomer as successor and KEEP as predecessor.  Once nothing is in
\* flight: P's successor is the newcomer and P's predecessor is what it was;
\* R's predecessor is the newcomer and R's successor is what it was; the
\* newcomer has successor R and predecessor P; every other member's slots
\* are what they were.
C25_JoinFrame ==
    FreshJoin =>
        LET R == wire.by
            P == wire.members[wire.by].predecessor.Address
        IN  /\ R \in DOMAIN wire.members
            /\ JoinUpdates = { UpdateMsg(P, wire.peer, "KEEP") }
            /\ Quiescent =>
                 /\ successor[P] = Node(wire.peer)
                 /\ predecessor[P] = wire.members[P].predecessor
                 /\ predecessor[R] = Node(wire.peer)
                 /\ successor[R] = wire.members[R].successor
                 /\ successor[wire.peer] = Node(R)
                 /\ predecessor[wire.peer] = Node(P)
                 /\ \A q \in DOMAIN wire.members \ {R, P} :
                        /\ successor[q] = wire.members[q].successor
                        /\ predecessor[q] = wire.members[q].predecessor

\* A newcomer was admitted into a ring of 3 and the UPDATE has been handled.
C25_Witness ==
    /\ FreshJoin /\ Quiescent
    /\ Cardinality(DOMAIN wire.members) = 3
    /\ successor[wire.members[wire.by].predecessor.Address] = Node(wire.peer)

\* C26: whichever member of a steady ring is given the JOIN of a fresh
\* newcomer, the member whose ID comes first clockwise from the newcomer's
\* admits it; the JOIN was forwarded once if the initiator is another member
\* and not at all otherwise; the reply joinRing read is the admitting
\* member's, successor then predecessor; the newcomer's slots are those two;
\* and once nothing is in flight every member's slots are what the ring
\* before and the newcomer's address determine.
C26_AnyInitiator ==
    FreshJoin =>
        LET owner == FirstClockwise(DOMAIN wire.members, hsh(wire.peer))
            P == wire.members[owner].predecessor.Address
        IN  /\ wire.by = owner
            /\ wire.fwd = IF wire.initiator = owner THEN 0 ELSE 1
            /\ wire.joinReply = << owner, P >>
            /\ successor[wire.peer] = Node(owner)
            /\ predecessor[wire.peer] = Node(P)
            /\ Quiescent =>
                 \A q \in DOMAIN wire.members :
                    /\ successor[q] = IF q = P THEN Node(wire.peer)
                                      ELSE wire.members[q].successor
                    /\ predecessor[q] = IF q = owner THEN Node(wire.peer)
                                        ELSE wire.members[q].predecessor

\* The JOIN went to a member of a ring of 3 that is neither the newcomer's
\* successor nor its predecessor and was forwarded once; nothing is in flight.
C26_Witness ==
    /\ FreshJoin /\ Quiescent
    /\ Cardinality(DOMAIN wire.members) = 3
    /\ wire.fwd = 1 /\ wire.by # wire.initiator
    /\ wire.members[wire.by].predecessor.Address # wire.initiator

----------------------------------------------------------------------------
(* Option 1 on a ring member, and a newcomer that holds files (C27, C28).  *)

\* C27: a member of a steady ring has picked option 1 with the address of
\* another member of that ring, leaveRing and joinRing have run back to back,
\* and every UPDATE and STORE has been handled: every peer of the ring,
\* the one that rejoined included, is running, and together they form one
\* cycle with predecessor the inverse of successor.
C27_RejoinSettles ==
    (/\ wire.kind = "joined" /\ wire.left # {} /\ wire.steady
     /\ wire.initiator \in wire.left
     /\ Quiescent) =>
        /\ \A q \in wire.left \cup {wire.peer} : alive[q]
        /\ SingleCycle(wire.left \cup {wire.peer})

\* C28: a peer that registered files has joined a ring through joinRing and
\* nothing is in flight: every one of those files it still registers has its
\* key in the peer's arc (predecessor.id, self.id].
C28_JoinerFilesInArc ==
    (/\ wire.kind = "joined" /\ wire.st = "ok" /\ wire.left = {}
     /\ wire.peer # wire.initiator /\ wire.steady
     /\ Quiescent /\ alive[wire.peer]) =>
        \A f \in (DOMAIN wire.before.storedFiles) \cap (DOMAIN storedFiles[wire.peer]) :
            storedFiles[wire.peer][f]
                \in Arc(predecessor[wire.peer].ID, hsh(wire.peer)) \cup { hsh(wire.peer) }

----------------------------------------------------------------------------
(* A JOIN of an ID that a ring member has (C29).                           *)

\* C29: joinRing has ended for a newcomer whose ID is that of a member of
\* the initiator's steady ring other than the initiator: joinRing did not
\* end well, no peer admitted the newcomer, and every member of the ring,
\* the initiator included, is running with the slots, storedFiles and blobs
\* it had.
C29_DuplicateRefused ==
    (/\ wire.kind = "joined" /\ wire.left = {} /\ wire.steady
     /\ wire.initiator \in DOMAIN wire.members
     /\ hsh(wire.initiator) # hsh(wire.peer)
     /\ \E q \in DOMAIN wire.members : hsh(q) = hsh(wire.peer)) =>
        /\ wire.st # "ok" /\ wire.by = ""
        /\ \A q \in DOMAIN wire.members : Snap(World, q) = wire.members[q]

----------------------------------------------------------------------------
(* Every JOIN of a fresh newcomer is answered (C30).                       *)

\* A newcomer that is alone, of an ID no member has, has picked option 1
\* with the address of a member of a steady ring of running peers (or of a
\* running peer alone).
FreshOption1 ==
    /\ wire.kind = "option1" /\ alive[wire.peer]
    /\ wire.left = {} /\ Alone(wire.peer)
    /\ wire.initiator \in DOMAIN wire.members /\ wire.steady
    /\ \A q \in DOMAIN wire.members : wire.members[q].alive /\ hsh(q) # hsh(wire.peer)

\* C30: under fair scheduling and reliable delivery, the JOIN of a fresh
\* newcomer into a steady ring is answered (joinRing ends with its two
\* slots set) and then everything in flight is handled: the system comes to
\* a state with nothing in flight.
C30_JoinAnswered ==
    FreshOption1 ~> (wire.kind = "joined" /\ wire.st = "ok" /\ Quiescent)

\* A forwarded JOIN was answered, a file went to the newcomer on the way,
\* and nothing is in flight any more.
C30_Witness ==
    /\ wire.kind = "joined" /\ wire.st = "ok" /\ Quiescent
    /\ wire.left = {} /\ wire.fwd = 1
    /\ \E m \in wire.joinSent : m.type = "STORE" /\ m.to = wire.peer
    /\ \E m \in wire.joinSent : m.type = "UPDATE"

----------------------------------------------------------------------------
(* The tasks of one peer: mutual exclusion and hsh (C21, C22).             *)

\* Task t is at a statement that writes the map storedFiles.
WritesMap(t) == tasks[t].pc \in {"mapWrite", "move"}

\* Task t is at the range over storedFiles.
RangesMap(t) == tasks[t].pc = "range"

\* Task t is at a statement that writes a neighbor slot.
WritesSlot(t) ==
    \/ tasks[t].pc \in {"updSuccID", "updPredID", "joinSlots"}
    \/ tasks[t].pc = "updSucc" /\ tasks[t].tokens[2] # "KEEP"
    \/ tasks[t].pc = "updPred" /\ tasks[t].tokens[3] # "KEEP"

\* C21: at no moment are two tasks of the peer both at a statement that
\* writes storedFiles, or both at a statement that writes a neighbor slot,
\* or one at the range over storedFiles and the other at a statement that
\* writes it.
C21_WritesSerialized ==
    \A t, u \in Conns :
        t # u => /\ ~(WritesMap(t) /\ WritesMap(u))
                 /\ ~(WritesSlot(t) /\ WritesSlot(u))
                 /\ ~(RangesMap(t) /\ WritesMap(u))

\* C22: whatever the other task does meanwhile, a call of hsh that has
\* returned in a task has returned the FNV-1a hash of its own argument,
\* modulo 127.
C22_HshReentrant ==
    \A t \in Conns : tasks[t].key # -1 => tasks[t].key = hsh(tasks[t].in)

====
